---- MODULE Spec2Model ----
(***************************************************************************)
(* Model of the confidence-distribution widget: the Distribution engine     *)
(* of src/src/distribution.js (first class of the file, lines 7-1121) and   *)
(* the quiz page of src/index.html (lines 97-263) that drives it.           *)
(*                                                                          *)
(* JavaScript numbers are modelled as fixed-point integers: the integer n   *)
(* stands for the number n / ONE.  Three values outside the finite range    *)
(* stand for NaN, Infinity and -Infinity, and the arithmetic operators      *)
(* follow the IEEE rules for them (NaN is contagious and compares false,    *)
(* x/0 is an infinity, 0/0 and Infinity*0 are NaN).  `undefined` used as a  *)
(* number is NaN, as in JavaScript.                                         *)
(***************************************************************************)
EXTENDS Integers, Sequences, FiniteSets, TLC

\* ------------------------------------------------------------------------
\* Fixed-point numbers
\* ------------------------------------------------------------------------

\* The model's unit: the integer ONE stands for the number 1.
ONE == 10^6
\* Base of the two-digit split used to multiply without leaving 32 bits.
HalfBase == 10^3
\* Largest finite magnitude; a result beyond it overflows to an infinity.
MaxNum == 2 * 10^9
Infinity == MaxNum + 1
NegInfinity == 0 - Infinity
NaN == MaxNum + 2

\* The element of a singleton set.  Val({e : x \in {a}}) is e with x bound
\* to the value of a: a is evaluated once, however often e uses x.
Val(S) == CHOOSE r \in S : TRUE

IsFinite(a) == a # NaN /\ a # Infinity /\ a # NegInfinity
Abs(a) == IF a < 0 THEN 0 - a ELSE a
Sign(a) == IF a < 0 THEN 0 - 1 ELSE 1

\* The number n (an integer of the program) as a fixed-point value.
Num(n) == n * ONE

\* JavaScript -a
Neg(a) == Val({IF x = NaN THEN NaN ELSE 0 - x : x \in {a}})

\* JavaScript a + b
Add(a, b) ==
    Val({IF x = NaN \/ y = NaN THEN NaN
         ELSE IF ~IsFinite(x) THEN (IF ~IsFinite(y) /\ y # x THEN NaN ELSE x)
         ELSE IF ~IsFinite(y) THEN y
         ELSE IF x > 0 /\ y > MaxNum - x THEN Infinity
         ELSE IF x < 0 /\ y < (0 - MaxNum) - x THEN NegInfinity
         ELSE x + y : x \in {a}, y \in {b}})

\* JavaScript a - b
Sub(a, b) == Add(a, Neg(b))

\* a * b / ONE for finite a, b >= 0, rounded to nearest; Infinity on overflow.
MulAbs(a, b) ==
    Val({IF a1 > 0 /\ b1 > MaxNum \div a1 THEN Infinity
         ELSE Val({IF hi > MaxNum - rest THEN Infinity ELSE hi + rest :
                   hi \in {a1 * b1},
                   rest \in {((a1 * b0) \div HalfBase) + ((a0 * b1) \div HalfBase)
                             + ((((a1 * b0) % HalfBase) * HalfBase
                                 + ((a0 * b1) % HalfBase) * HalfBase
                                 + a0 * b0 + ONE \div 2) \div ONE)}}) :
         a1 \in {a \div HalfBase}, a0 \in {a % HalfBase},
         b1 \in {b \div HalfBase}, b0 \in {b % HalfBase}})

\* JavaScript a * b
Mul(a, b) ==
    Val({IF x = NaN \/ y = NaN THEN NaN
         ELSE IF ~IsFinite(x) \/ ~IsFinite(y)
              THEN (IF x = 0 \/ y = 0 THEN NaN
                    ELSE IF Sign(x) = Sign(y) THEN Infinity ELSE NegInfinity)
         ELSE Val({IF Sign(x) = Sign(y) \/ m = 0 THEN m ELSE 0 - m :
                   m \in {MulAbs(Abs(x), Abs(y))}}) :
         x \in {a}, y \in {b}})

\* The next decimal digit of r / b and what remains, for 0 <= r < b
digit(rd, b) == <<(rd[1] * 10) % b, rd[2] * 10 + ((rd[1] * 10) \div b)>>

\* r * ONE / b for 0 <= r < b <= MaxNum/10, by six decimal digits, rounded.
FracDigits(r, b) ==
    Val({rd[2] + (IF 2 * rd[1] >= b THEN 1 ELSE 0) :
         rd \in {digit(digit(digit(digit(digit(digit(<<r, 0>>, b), b), b), b), b), b)}})

\* a * ONE / b for finite a >= 0, b > 0, rounded; Infinity on overflow.
DivAbs(a, b) ==
    Val({Val({IF q > MaxNum \div ONE THEN Infinity
              ELSE Val({IF v > MaxNum THEN Infinity ELSE v :
                        v \in {q * ONE + FracDigits(n % d, d)}}) :
              q \in {n \div d}}) :
         n \in {IF b > MaxNum \div 10 THEN a \div 10 ELSE a},
         d \in {IF b > MaxNum \div 10 THEN b \div 10 ELSE b}})

\* JavaScript a / b
Div(a, b) ==
    Val({IF x = NaN \/ y = NaN THEN NaN
         ELSE IF ~IsFinite(x)
              THEN (IF ~IsFinite(y) THEN NaN
                    ELSE IF Sign(x) = Sign(y) THEN Infinity ELSE NegInfinity)
         ELSE IF ~IsFinite(y) THEN 0
         ELSE IF y = 0
              THEN (IF x = 0 THEN NaN
                    ELSE IF x > 0 THEN Infinity ELSE NegInfinity)
         ELSE Val({IF Sign(x) = Sign(y) \/ m = 0 THEN m ELSE 0 - m :
                   m \in {DivAbs(Abs(x), Abs(y))}}) :
         x \in {a}, y \in {b}})

\* JavaScript comparisons: false whenever a side is NaN.
Lt(a, b) == Val({x # NaN /\ y # NaN /\ x < y : x \in {a}, y \in {b}})
Gt(a, b) == Lt(b, a)
Le(a, b) == Val({x # NaN /\ y # NaN /\ x <= y : x \in {a}, y \in {b}})
Ge(a, b) == Le(b, a)

\* Math.abs
MathAbs(a) == Val({IF x = NaN THEN NaN ELSE Abs(x) : x \in {a}})

\* Math.floor
Floor(a) == Val({IF IsFinite(x) THEN (x \div ONE) * ONE ELSE x : x \in {a}})

\* Math.min
MathMin(a, b) ==
    Val({IF x = NaN \/ y = NaN THEN NaN ELSE IF x < y THEN x ELSE y :
         x \in {a}, y \in {b}})

\* e^-n for n = 1..14 in fixed point; e^-n rounds to 0 from n = 15 on.
ExpNegInt == <<367879, 135335, 49787, 18316, 6738, 2479, 912, 335, 123, 45,
               17, 6, 2, 1>>

\* The Taylor series of e^-v for 0 <= v < ONE, term k being -term(k-1)*v/k.
RECURSIVE ExpSeries(_, _, _, _)
ExpSeries(v, k, term, acc) ==
    IF term = 0 \/ k > 12 THEN acc
    ELSE Val({Val({ExpSeries(v, k + 1, next, sum) :
                   sum \in {IF k % 2 = 1 THEN acc - next ELSE acc + next}}) :
              next \in {MulAbs(term, v) \div k}})

\* e^-q for a finite q >= 0
ExpNeg(q) ==
    Val({IF n = 0 THEN s
         ELSE IF n > Len(ExpNegInt) THEN 0
         ELSE MulAbs(ExpNegInt[n], s) :
         n \in {q \div ONE}, s \in {ExpSeries(q % ONE, 1, ONE, ONE)}})

\* Math.exp(a)
MathExp(a) ==
    Val({IF x = NaN THEN NaN
         ELSE IF x = NegInfinity THEN 0
         ELSE IF x = Infinity THEN Infinity
         ELSE IF x <= 0 THEN ExpNeg(0 - x)
         ELSE Div(ONE, ExpNeg(x)) : x \in {a}})

\* ------------------------------------------------------------------------
\* Arrays (JavaScript indices start at 0; an index is a number)
\* ------------------------------------------------------------------------

\* The array with the elements of the function fn on 1..n, evaluated once.
Arr(fn, n) == SubSeq(fn, 1, n)

\* arr[i]: undefined (NaN as a number) unless i is an integer index of arr.
At(arr, i) ==
    Val({IF IsFinite(k) /\ k % ONE = 0 /\ k >= 0 /\ k \div ONE < Len(arr)
         THEN arr[(k \div ONE) + 1]
         ELSE NaN : k \in {i}})

\* utils.sum over arr[0..n-1]
RECURSIVE sumTo(_, _)
sumTo(arr, n) == IF n = 0 THEN 0 ELSE Add(sumTo(arr, n - 1), arr[n])

\* utils.sum
sum(arr) == Val({sumTo(a, Len(a)) : a \in {arr}})

\* Array.prototype.indexOf, as a number: -1 when the value is absent.
indexOf(arr, v) ==
    IF \E i \in 1..Len(arr) : arr[i] = v /\ v # NaN
    THEN Num((CHOOSE i \in 1..Len(arr) :
                 arr[i] = v /\ \A j \in 1..(i - 1) : arr[j] # v) - 1)
    ELSE Num(0 - 1)

\* ------------------------------------------------------------------------
\* Density function and AUC normalizer (static methods)
\* ------------------------------------------------------------------------

\* Distribution.root2pi
root2pi == 2506628

\* Distribution.f(x, mu, sd)
f(x, mu, sd) ==
    Val({Arr([i \in 1..Len(xs) |->
                Mul(z, MathExp(Neg(Div(Mul(Sub(xs[i], m), Sub(xs[i], m)), w))))],
             Len(xs)) :
         xs \in {x}, m \in {mu},
         z \in {Div(ONE, Mul(root2pi, sd))},
         w \in {Val({Mul(t, t) : t \in {Mul(Num(2), sd)}})}})

\* The remainder loop of adjustForConstantAUC over xValues[0..n-1].
RECURSIVE tailDifference(_, _, _, _)
tailDifference(x, xValues, yValues, n) ==
    IF n = 0 THEN 0
    ELSE Val({IF Lt(xValues[n], x) THEN Add(r, yValues[n])
              ELSE IF Gt(xValues[n], x) THEN Sub(r, yValues[n])
              ELSE r :
              r \in {tailDifference(x, xValues, yValues, n - 1)}})

\* adjustForConstantAUC adding remainder * yValues[i], not divided by the
\* sum
adjustWithoutSum(x, xValues, yValues) ==
    Val({Val({IF Gt(Div(remainder, Num(Len(xs))), 0)
              THEN Arr([i \in 1..Len(ys) |-> Add(ys[i], Mul(remainder, ys[i]))],
                       Len(ys))
              ELSE ys :
              remainder \in {MathAbs(tailDifference(mean, xs, ys, Len(xs)))}}) :
         mean \in {x}, xs \in {xValues}, ys \in {yValues}})

\* Distribution.adjustForConstantAUC(x, xValues, yValues): the array it
\* returns.  The code writes the result into yValues itself (yValuesNew is
\* the same array), so the caller's array holds these values too.
adjustForConstantAUC(x, xValues, yValues) ==
    Val({Val({IF Gt(Div(remainder, Num(Len(xs))), 0)
              THEN Arr([i \in 1..Len(ys) |->
                          Add(ys[i], Mul(remainder, Div(ys[i], total)))],
                       Len(ys))
              ELSE ys :
              remainder \in {MathAbs(tailDifference(mean, xs, ys, Len(xs)))},
              total \in {sum(ys)}}) :
         mean \in {x}, xs \in {xValues}, ys \in {yValues}})

\* ------------------------------------------------------------------------
\* The engine d (a Distribution instance): derived quantities
\* ------------------------------------------------------------------------

\* get scale
scale(d) == Div(Num(Len(d.x)), d.scaleFactor)

\* getSD(precision)
getSD(d, precision) == Div(ONE, Div(Mul(root2pi, precision), scale(d)))

\* get maxPossiblePrecision
maxPossiblePrecision(d) ==
    IF ~d.constantAUC THEN d.maxPrecision
    ELSE Val({Mul(adjustForConstantAUC(last, d.x,
                     f(d.x, last, getSD(d, d.maxPrecision)))[Len(d.x)],
                  scale(d)) :
              last \in {d.x[Len(d.x)]}})

\* get pixelsPerPoint().x
pixelsPerPointX(d) == Floor(Div(d.canvas.clientWidth, Num(Len(d.x))))

\* get gutter
gutter(d) ==
    [x |-> Add(d.style.gutterX,
               Div(Sub(d.canvas.clientWidth,
                       Mul(pixelsPerPointX(d), Sub(d.xMax, d.xMin))),
                   Num(2))),
     y |-> d.style.gutterY]

\* get panel
panel(d) ==
    Val({[left |-> left, top |-> top, width |-> width, height |-> height,
          bottom |-> Add(top, height), right |-> Add(left, width)] :
         left \in {Add(gutter(d).x, d.style.paddingX)},
         top \in {Add(gutter(d).y, d.style.paddingY)},
         width \in {Sub(d.canvas.clientWidth,
                        Mul(Add(gutter(d).x, d.style.paddingX), Num(2)))},
         height \in {Sub(d.canvas.clientHeight,
                         Mul(Add(gutter(d).y, d.style.paddingY), Num(2)))}})

\* valueToX(value), scalar branch
valueToX(d, value) ==
    Add(Add(panel(d).left,
            Mul(Div(panel(d).width, Num(Len(d.x))), Sub(value, d.xMin))),
        Div(pixelsPerPointX(d), Num(2)))

\* xToValue without the cap at the last index
xToValueUncapped(d, x) == Floor(Mul(Div(x, panel(d).width), Num(Len(d.x))))

\* xToValue(x), scalar branch
xToValue(d, x) ==
    MathMin(Floor(Mul(Div(x, panel(d).width), Num(Len(d.x)))),
            Num(Len(d.x) - 1))

\* get precisionScale
precisionScale(d) ==
    Div(panel(d).height, Add(d.maxPrecision, d.style.precisionPadding))

\* precisionToY(precision), scalar branch
precisionToY(d, precision) ==
    Mul(Sub(precision, d.style.precisionStart), precisionScale(d))

\* yToPrecision(y), scalar branch
yToPrecision(d, y) == Add(Div(y, precisionScale(d)), d.style.precisionStart)

\* payoutScale with the ratio of the ranges inverted
payoutScaleOfBets(d) ==
    Mul(Div(Sub(d.maxBet, d.minBet), Sub(d.maxPrecision, d.minPrecision)),
        precisionScale(d))

\* get payoutScale
payoutScale(d) ==
    Mul(Div(Sub(d.maxPrecision, d.minPrecision), Sub(d.maxBet, d.minBet)),
        precisionScale(d))

\* payoutToY without the offset of minBet
payoutToYFromZero(d, payout) ==
    Add(Mul(Sub(d.minPrecision, d.style.precisionStart), precisionScale(d)),
        Mul(payout, payoutScale(d)))

\* payoutToY(payout), scalar branch
payoutToY(d, payout) ==
    Add(Mul(Sub(d.minPrecision, d.style.precisionStart), precisionScale(d)),
        Mul(Sub(payout, d.minBet), payoutScale(d)))

\* yToPayout that never caps
yToPayoutUncapped(d, y, capByPayoutLimits) ==
    Add(d.minBet,
        Div(Sub(y, Mul(Sub(d.minPrecision, d.style.precisionStart),
                       precisionScale(d))),
            payoutScale(d)))

\* yToPayout(y, capByPayoutLimits), scalar branch
yToPayout(d, y, capByPayoutLimits) ==
    Val({IF ~capByPayoutLimits THEN out
         ELSE IF Lt(out, d.minPayout) THEN d.minPayout
         ELSE IF Gt(out, d.maxPayout) THEN d.maxPayout
         ELSE out :
         out \in {Add(d.minBet,
                      Div(Sub(y, Mul(Sub(d.minPrecision, d.style.precisionStart),
                                     precisionScale(d))),
                          payoutScale(d)))}})

\* ------------------------------------------------------------------------
\* The mapping methods with all their branches.  An argument or a result
\* is a number, an array of numbers or undefined; each is written as its
\* type and the sequence of its numbers.
\* ------------------------------------------------------------------------

numberValue(v) == [type |-> "number", value |-> <<v>>]
arrayValue(a) == [type |-> "array", value |-> a]
undefined == [type |-> "undefined", value |-> <<>>]
\* The number that the value v is
numberOf(v) == v.value[1]

\* valueToX(value): NaN for undefined, the sum of the mapped elements for
\* an array, the mapped value for a number
valueToXAny(d, value) ==
    IF value.type = "undefined" THEN numberValue(NaN)
    ELSE IF value.type = "array"
    THEN numberValue(sum(Arr([i \in 1..Len(value.value) |->
                           valueToX(d, value.value[i])], Len(value.value))))
    ELSE numberValue(valueToX(d, numberOf(value)))

\* xToValue(x)
xToValueAny(d, x) ==
    IF x.type = "undefined" THEN numberValue(NaN)
    ELSE IF x.type = "array"
    THEN numberValue(sum(Arr([i \in 1..Len(x.value) |->
                           xToValue(d, x.value[i])], Len(x.value))))
    ELSE numberValue(xToValue(d, numberOf(x)))

\* precisionToY(precision)
precisionToYAny(d, precision) ==
    IF precision.type = "undefined" THEN numberValue(NaN)
    ELSE IF precision.type = "array"
    THEN numberValue(sum(Arr([i \in 1..Len(precision.value) |->
                           precisionToY(d, precision.value[i])],
                        Len(precision.value))))
    ELSE numberValue(precisionToY(d, numberOf(precision)))

\* yToPrecision(y)
yToPrecisionAny(d, y) ==
    IF y.type = "undefined" THEN numberValue(NaN)
    ELSE IF y.type = "array"
    THEN numberValue(sum(Arr([i \in 1..Len(y.value) |->
                           yToPrecision(d, y.value[i])], Len(y.value))))
    ELSE numberValue(yToPrecision(d, numberOf(y)))

\* payoutToY(payout)
payoutToYAny(d, payout) ==
    IF payout.type = "undefined" THEN numberValue(NaN)
    ELSE IF payout.type = "array"
    THEN numberValue(sum(Arr([i \in 1..Len(payout.value) |->
                           payoutToY(d, payout.value[i])], Len(payout.value))))
    ELSE numberValue(payoutToY(d, numberOf(payout)))

\* yToPayout(y, capByPayoutLimits), the flag being true when none is given
yToPayoutAny(d, y, capByPayoutLimits) ==
    IF y.type = "undefined" THEN numberValue(NaN)
    ELSE IF y.type = "array"
    THEN numberValue(sum(Arr([i \in 1..Len(y.value) |->
                           yToPayout(d, y.value[i], capByPayoutLimits)],
                        Len(y.value))))
    ELSE numberValue(yToPayout(d, numberOf(y), capByPayoutLimits))

\* ------------------------------------------------------------------------
\* Precision search
\* ------------------------------------------------------------------------

\* testPrecision += (searchDownwards? -1 : 1) * stepSize
stepped(s) ==
    [s EXCEPT !.testPrecision =
        Add(@, Mul(IF s.searchDownwards THEN Num(0 - 1) ELSE Num(1), s.stepSize))]

\* The body of the while loop of findPrecisionWhichAdjustsTo, s being its
\* locals and result the adjusted peak found for s.testPrecision
searchBody(targetPrecision, maxError, s, result, error) ==
    IF Gt(s.best.error, error)
    THEN IF Lt(error, maxError)
         THEN [s EXCEPT !.best = [input |-> s.testPrecision, result |-> result,
                                  error |-> error],
                        !.looping = FALSE]
         ELSE stepped([s EXCEPT !.best = [input |-> s.testPrecision,
                                          result |-> result, error |-> error]])
    ELSE stepped([s EXCEPT !.stepSize = Div(@, Num(2)),
                           !.searchDownwards = ~@,
                           !.testPrecision = s.best.input])

\* One pass of the while loop, from the test of its condition (which counts
\* the cycle) to the end of its body; s.looping is false once the loop was
\* left, by its condition or by break.
searchCycle(d, targetPrecision, maxError, maxCycles, s) ==
    IF ~s.looping THEN s
    ELSE IF ~(s.cycles < maxCycles)
    THEN [s EXCEPT !.cycles = @ + 1, !.looping = FALSE]
    ELSE Val({searchBody(targetPrecision, maxError,
                         [s EXCEPT !.cycles = @ + 1], result,
                         MathAbs(Sub(result, targetPrecision))) :
              result \in {Mul(At(adjustForConstantAUC(d.bet.on, d.x,
                                    f(d.x, d.bet.on, getSD(d, s.testPrecision))),
                                 d.bet.index),
                              scale(d))}})

\* n passes of the loop
RECURSIVE searchCycles(_, _, _, _, _, _)
searchCycles(d, targetPrecision, maxError, maxCycles, s, n) ==
    IF n = 0 \/ ~s.looping THEN s
    ELSE IF n = 1
    THEN Val({searchCycle(d, targetPrecision, maxError, maxCycles, t) : t \in {s}})
    ELSE Val({searchCycles(d, targetPrecision, maxError, maxCycles, t,
                           n - (n \div 2)) :
              t \in {searchCycles(d, targetPrecision, maxError, maxCycles,
                                  s, n \div 2)}})

\* The locals of findPrecisionWhichAdjustsTo before its loop
searchStart(targetPrecision) ==
    [testPrecision |-> targetPrecision,
     cycles |-> 0,
     searchDownwards |-> FALSE,
     stepSize |-> ONE \div 2,
     best |-> [input |-> targetPrecision, result |-> targetPrecision,
               error |-> Infinity],
     looping |-> TRUE]

\* The locals of findPrecisionWhichAdjustsTo when its loop has ended: the
\* loop tests its condition at most maxCycles + 1 times.
searchEnd(d, targetPrecision, maxError, maxCycles) ==
    Val({searchCycles(d, t, maxError, maxCycles, s, maxCycles + 1) :
         t \in {targetPrecision}, s \in {searchStart(targetPrecision)}})

\* findPrecisionWhichAdjustsTo(targetPrecision, maxError, maxCycles)
findPrecisionWhichAdjustsTo(d, targetPrecision, maxError, maxCycles) ==
    Val({IF s.cycles >= maxCycles THEN NaN ELSE s.best.input :
         s \in {searchEnd(d, targetPrecision, maxError, maxCycles)}})

\* The default arguments of findPrecisionWhichAdjustsTo
defaultMaxError == 10
defaultMaxCycles == 1000

\* ------------------------------------------------------------------------
\* Update pipeline
\* ------------------------------------------------------------------------

\* x < 0 ? 0 : x > limit ? limit : x
clampTo(x, limit) ==
    Val({IF Lt(v, 0) THEN 0 ELSE IF Gt(v, top) THEN top ELSE v :
         v \in {x}, top \in {limit}})

\* getCursorCoordinates(clickEvent): the event is given by its position
\* relative to the panel's top left corner, that is clientX - rect.left -
\* clientLeft - panel.left and clientY - rect.top - clientTop - panel.top.
getCursorCoordinates(d, clickEvent) ==
    [x |-> clampTo(clickEvent.x, panel(d).width),
     y |-> Sub(panel(d).height, clampTo(clickEvent.y, panel(d).height))]

\* The clamp with its lower limit only
clampPrecisionFromBelow(d, precision) ==
    Val({IF Lt(p, d.minPrecision) THEN d.minPrecision ELSE p : p \in {precision}})

\* Clamp by allowed precision range
clampPrecision(d, precision) ==
    Val({IF Lt(p, d.minPrecision) THEN d.minPrecision
         ELSE IF Gt(p, d.maxPrecision) THEN d.maxPrecision
         ELSE p : p \in {precision}})

\* updateFromCursor(clickEvent) from the assignment of bet.precision on, d
\* having its bet.index and bet.on
updateBetPrecision(d, cursor) ==
    Val({[d EXCEPT !.bet.precision = precision,
                   !.bet.y = precisionToY(d, precision),
                   !.bet.amount = yToPayout(d, precisionToY(d, precision), TRUE)] :
         precision \in
            {clampPrecision(d,
                IF d.constantAUC
                THEN findPrecisionWhichAdjustsTo(d, yToPrecision(d, cursor.y),
                                                 defaultMaxError, defaultMaxCycles)
                ELSE yToPrecision(d, cursor.y))}})

\* updateFromCursor with the precision computed before bet.index and
\* bet.on are assigned
updateFromCursorOldMean(d, clickEvent) ==
    Val({Val({[d1 EXCEPT !.bet.index = xToValue(d, cursor.x),
                         !.bet.on = At(d.x, xToValue(d, cursor.x))] :
              d1 \in {updateBetPrecision(d, cursor)}}) :
         cursor \in {getCursorCoordinates(d, clickEvent)}})

\* updateFromCursor(clickEvent): the engine as its last statement, the call
\* of the onUpdate observer, finds it and as it is returned (what the
\* observer does is part of the action).
updateFromCursor(d, clickEvent) ==
    Val({Val({updateBetPrecision(d1, cursor) :
              d1 \in {[d EXCEPT !.bet.index = xToValue(d, cursor.x),
                                !.bet.on = At(d.x, xToValue(d, cursor.x))]}}) :
         cursor \in {getCursorCoordinates(d, clickEvent)}})

\* updateY(): precisionRaw and precision are one array when constantAUC is
\* set (adjustForConstantAUC writes into the array it is given) and the
\* same array otherwise; y keeps its elements beyond precision.length.
updateY(d) ==
    Val({[d EXCEPT !.precisionRaw = precision,
                   !.precision = precision,
                   !.y = Arr([i \in 1..n |->
                                IF i <= Len(precision)
                                THEN precisionToY(d, Mul(precision[i], scale(d)))
                                ELSE d.y[i]], n)] :
         precision \in {IF d.constantAUC
                        THEN adjustForConstantAUC(d.bet.on, d.x,
                                f(d.x, d.bet.on, getSD(d, d.bet.precision)))
                        ELSE f(d.x, d.bet.on, getSD(d, d.bet.precision))},
         n \in {IF Len(d.y) > Len(d.x) THEN Len(d.y) ELSE Len(d.x)}})

\* ------------------------------------------------------------------------
\* Construction
\* ------------------------------------------------------------------------

\* style.precisionPadding: 'auto'
auto == MaxNum + 3

\* Distribution.defaultStyle, the fields that enter the geometry
defaultStyle ==
    [gutterX |-> 0, gutterY |-> 0, paddingX |-> 0, paddingY |-> 0,
     precisionPadding |-> auto, precisionMargin |-> 0, precisionStart |-> 0]

\* The sample grid built by the constructor
grid(xMin, xMax, xPoints, reverseX) ==
    Val({IF reverseX THEN Arr([i \in 1..n |-> x[n + 1 - i]], n) ELSE x :
         n \in {(Sub(xMax, xMin) \div ONE) + 1},
         x \in {Arr([i \in 1..((Sub(xMax, xMin) \div ONE) + 1) |->
                       Add(xMin, Mul(Div(Sub(xMax, xMin), xPoints), Num(i - 1)))],
                    (Sub(xMax, xMin) \div ONE) + 1)}})

\* new Distribution(args, startEnabled): the fields of the new engine.  args
\* gives every field (the page passes a record of options the first time
\* and the previous engine afterwards); the canvas is registered by the
\* action.
Distribution(args, startEnabled) ==
    Val({[d0 EXCEPT !.style.precisionPadding =
             Add(IF d0.style.precisionPadding = auto
                 THEN Sub(maxPossiblePrecision(d0), d0.maxPrecision)
                 ELSE d0.style.precisionPadding,
                 d0.style.precisionMargin)] :
         d0 \in {[xMin |-> args.xMin, xMax |-> args.xMax,
                  xPoints |-> args.xPoints, reverseX |-> args.reverseX,
                  minPrecision |-> args.minPrecision,
                  maxPrecision |-> args.maxPrecision,
                  minBet |-> args.minBet, maxBet |-> args.maxBet,
                  minPayout |-> args.minPayout, maxPayout |-> args.maxPayout,
                  scaleFactor |-> args.scaleFactor,
                  startEnabled |-> startEnabled,
                  canvas |-> args.canvas,
                  x |-> grid(args.xMin, args.xMax, args.xPoints, args.reverseX),
                  y |-> <<>>, precisionRaw |-> <<>>, precision |-> <<>>,
                  bet |-> [y |-> 0, precision |-> 0, amount |-> args.minBet,
                           on |-> Add(args.xMin, Sub(args.xMax, args.xMin)),
                           won |-> 0, index |-> NaN],
                  style |-> args.style,
                  callback |-> args.callback,
                  constantAUC |-> args.constantAUC]}})

\* ------------------------------------------------------------------------
\* The page (index.html) and its inputs
\* ------------------------------------------------------------------------

\* Number of questions the page loaded (questions.length)
NumQuestions == 2
\* window.MAX_QUESTIONS
MAX_QUESTIONS == 10
\* Most reveals (showResult calls) followed in a run of the page
MaxReveals == 3
\* Frame numbers beyond MaxFrames are told apart by their parity only
MaxFrames == 12
\* Largest x value of the page's axis (the smallest is xMin)
GridMax == 4

\* animatePayout's default pixelsPerFrame
pixelsPerFrame == 5000000
\* The page's options (index.html, new Distribution({...}, false))
minPrecision == 250000
maxPrecision == 900000
minBet == 250000
maxBet == 1000000
\* The default scaleFactor
scaleFactor == 10000000

\* Height of the canvas: a panel of 20 pixels, and one of no height at all
ClientHeightSeq == <<Num(120), Num(110)>>
ClientWidth == Num(140)

\* The elements of a sequence, and the first position of one of them
Range(q) == {q[i] : i \in 1..Len(q)}
Position(q, v) == CHOOSE i \in 1..Len(q) : q[i] = v /\ \A j \in 1..(i - 1) : q[j] # v
ClientHeights == Range(ClientHeightSeq)

\* The options the page constructs its first engine with, on a canvas of
\* client height h
pageArgs(h) ==
    [xMin |-> 0, xMax |-> Num(GridMax), xPoints |-> Num(GridMax),
     reverseX |-> FALSE,
     minPrecision |-> minPrecision, maxPrecision |-> maxPrecision,
     minBet |-> minBet, maxBet |-> maxBet,
     minPayout |-> NegInfinity, maxPayout |-> Infinity,
     scaleFactor |-> scaleFactor,
     canvas |-> [clientWidth |-> ClientWidth, clientHeight |-> h],
     style |-> [defaultStyle EXCEPT !.gutterX = Num(5), !.gutterY = Num(15),
                                    !.paddingX = Num(40), !.paddingY = Num(40)],
     callback |-> [onUpdate |-> TRUE, onAnimationFrame |-> FALSE,
                   onAnimationEnd |-> FALSE],
     constantAUC |-> TRUE]

\* Pointer positions relative to the panel's top left corner
PointerEventSeq == <<[x |-> Num(2), y |-> Num(2)], [x |-> Num(11), y |-> Num(8)]>>
PointerEvents == Range(PointerEventSeq)

\* The targets of the questions file, in the order of the file
Targets == [i \in 1..NumQuestions |-> Num((2 * (i - 1)) % (GridMax + 1))]
\* shuffle(array): the orders it may return
shuffle(array) ==
    {[i \in 1..Len(array) |-> array[p[i]]] :
        p \in {q \in [1..Len(array) -> 1..Len(array)] :
                  \A i, j \in 1..Len(array) : q[i] = q[j] => i = j}}

\* ------------------------------------------------------------------------
\* drawToCanvas
\* ------------------------------------------------------------------------

\* What an update computes does not depend on the bet and curve before it:
\* the engine with those fields as the constructor leaves them.
unplayed(d) ==
    [d EXCEPT !.bet = [y |-> 0, precision |-> 0, amount |-> d.minBet,
                       on |-> Add(d.xMin, Sub(d.xMax, d.xMin)),
                       won |-> 0, index |-> NaN],
              !.y = <<>>, !.precisionRaw = <<>>, !.precision = <<>>,
              !.startEnabled = TRUE,
              !.callback = [onUpdate |-> TRUE, onAnimationFrame |-> FALSE,
                            onAnimationEnd |-> FALSE]]

\* The updates of the page's engine on each canvas by each pointer event,
\* computed once.
memoEngines ==
    Arr([hi \in 1..Len(ClientHeightSeq) |->
           unplayed(Distribution(pageArgs(ClientHeightSeq[hi]), TRUE))],
        Len(ClientHeightSeq))
memoEngine(hi) == memoEngines[hi]
curveMemo ==
    Arr([hi \in 1..Len(ClientHeightSeq) |->
           Arr([ei \in 1..Len(PointerEventSeq) |->
                  Val({Val({updateY(u) :
                            u \in {updateFromCursor(d, PointerEventSeq[ei])}}) :
                       d \in {memoEngine(hi)}})],
               Len(PointerEventSeq))],
        Len(ClientHeightSeq))

\* updateFromCursor(clickEvent).updateY(), looked up when it was computed
updateCurve(d, clickEvent) ==
    IF /\ d.canvas.clientHeight \in ClientHeights
       /\ clickEvent \in PointerEvents
       /\ unplayed(d) = memoEngine(Position(ClientHeightSeq, d.canvas.clientHeight))
    THEN curveMemo[Position(ClientHeightSeq, d.canvas.clientHeight)]
                  [Position(PointerEventSeq, clickEvent)]
    ELSE Val({updateY(u) : u \in {updateFromCursor(d, clickEvent)}})

\* The canvas of an engine constructed without one
null == [null |-> TRUE]

\* drawToCanvas(clickEvent): the engine after it.  Without a canvas it
\* logs and returns.  The drawing itself (clearCanvas, drawRectangles,
\* drawAxisX, drawWidget) changes no field.
drawToCanvas(d, clickEvent) ==
    IF d.canvas = null THEN d ELSE
    Val({[d EXCEPT !.bet = [u.bet EXCEPT !.won = d.bet.won],
                   !.y = u.y,
                   !.precisionRaw = u.precisionRaw,
                   !.precision = u.precision] :
         u \in {updateCurve(d, clickEvent)}})

\* ------------------------------------------------------------------------
\* State
\* ------------------------------------------------------------------------

VARIABLES
    engines,        \* the Distribution instances, in order of construction;
                    \* window.dist and canvas.distribution are the last one
    canvas,         \* the canvas: the generation of the functions installed
                    \* on it (canvas.clickMouse, canvas.drawToCanvas, ...)
                    \* and, per event type, the listeners attached to it,
                    \* each named by the engine whose registerCanvas made it
    buttons,        \* buttons.showResults.disabled
    answers,        \* window.answers
    questionNumber, \* window.questionNumber
    timers,         \* the pending setTimeout callbacks
    reveals,        \* per engine, how many times showResult ran on it
    reported,       \* what the observers (onAnimationFrame, onAnimationEnd)
                    \* have been told since the last showResult
    tracking,       \* the last of pointer-down (on a clickable canvas),
                    \* pointer-up and pointer-leave was a pointer-down
    lastEvent,      \* how many times the last pointer event ran the update
                    \* pipeline
    search,         \* a call of findPrecisionWhichAdjustsTo on the current
                    \* engine: its arguments and, once it has returned, its
                    \* locals and the value returned
    call            \* the last call a host program made on the current
                    \* engine itself (drawToCanvas with an event, or one of
                    \* the coordinate mappings): its arguments, what it
                    \* returned and, for drawToCanvas, the engine as the
                    \* onUpdate observer found it.  The page makes no such
                    \* call: its observer reads nothing of the engine.

vars == <<engines, canvas, buttons, answers, questionNumber, timers, reveals,
          reported, tracking, lastEvent, search, call>>

\* window.dist
dist == Len(engines)

\* ------------------------------------------------------------------------
\* registerCanvas and the canvas' own functions
\* ------------------------------------------------------------------------

\* canvas.registerTrackMouse(enable): adds or removes canvas.drawToCanvas,
\* the function installed by the latest registerCanvas.
registerTrackMouse(c, enable) ==
    [c EXCEPT !.mousemove = IF enable THEN @ \cup {c.fns} ELSE @ \ {c.fns}]

\* canvas.registerClickMouse(enable): adds or removes canvas.clickMouse.
registerClickMouse(c, enable) ==
    [c EXCEPT !.mousedown = IF enable THEN @ \cup {c.fns} ELSE @ \ {c.fns}]

\* registerCanvas registering clickMouse whatever startEnabled is
registerCanvasEnabled(c, g, startEnabled) ==
    registerClickMouse([c EXCEPT !.fns = g,
                                 !.mouseup = @ \cup {g},
                                 !.mouseout = @ \cup {g}],
                       TRUE)

\* registerCanvas(canvas) of the engine g: installs new functions on the
\* canvas, attaches new mouseup and mouseout listeners and, if the engine
\* starts enabled, its clickMouse.  (hoverDisplay is off on the page:
\* registerHoverTrackMouse(false) removes a listener that was never added.)
registerCanvas(c, g, startEnabled) ==
    LET c1 == [c EXCEPT !.fns = g,
                        !.mouseup = @ \cup {g},
                        !.mouseout = @ \cup {g}]
    IN IF startEnabled THEN registerClickMouse(c1, TRUE) ELSE c1

\* ------------------------------------------------------------------------
\* Initial state: the page's module script has run
\* ------------------------------------------------------------------------

\* What the observers have been told since a showResult that found the
\* column y0 to animate
noReport(y0) == [y0 |-> y0, ys |-> <<>>, ends |-> 0, endFrame |-> 0, stale |-> FALSE]

noSearch == [called |-> FALSE]

noCall == [method |-> "none"]

noCanvas == [fns |-> 0, mousedown |-> {}, mousemove |-> {}, mouseup |-> {},
             mouseout |-> {}]

Init ==
    /\ \E h \in ClientHeights : engines = <<Distribution(pageArgs(h), FALSE)>>
    /\ canvas = registerCanvas(noCanvas, 1, FALSE)
    /\ buttons = [showResultsDisabled |-> TRUE]
    /\ answers = <<>>
    /\ questionNumber = 0
    /\ timers = {}
    /\ reveals = <<0>>
    /\ reported = noReport(NaN)
    /\ tracking = FALSE
    /\ lastEvent = 0
    /\ search = noSearch
    /\ call = noCall

\* ------------------------------------------------------------------------
\* Operations on the page state st = [engines, canvas, questionNumber,
\* timers, reveals, reported]
\* ------------------------------------------------------------------------

\* nextRound(): a new engine is constructed from the current one, with the
\* default startEnabled, unless the questions are used up.
nextRound(st) ==
    IF st.questionNumber >= Len(answers) \/ st.questionNumber >= MAX_QUESTIONS
    THEN st
    ELSE LET g == Len(st.engines) + 1
             d == Distribution(st.engines[g - 1], TRUE)
         IN [st EXCEPT !.engines = Append(@, d),
                       !.reveals = Append(@, 0),
                       !.canvas = registerCanvas(@, g, d.startEnabled)]

\* animateScoreEnd(x, y, speed, frames), the page's onAnimationEnd
animateScoreEnd(st, frames) ==
    LET st1 == [st EXCEPT !.questionNumber = @ + 1]
        timeElapsed == frames * 20
        delay == 1500 - timeElapsed
    IN IF delay <= 0
       THEN nextRound(st1)
       ELSE [st1 EXCEPT !.timers =
                @ \cup {[kind |-> "nextRound", id |-> st1.questionNumber]}]

\* The frame number n as the model keeps it: a number beyond MaxFrames
\* stands for every later one of its parity (no column of the model needs
\* that many frames to reach 0).
capFrame(n) == IF n > MaxFrames THEN n - 2 ELSE n

\* The column has reached 0 or swapped sides
reachedZero(y, lt0) == IF lt0 THEN ~Lt(y, 0) ELSE ~Gt(y, 0)

\* end = y < 0 !== lt0: the column has swapped sides
swapped(y, lt0) == Lt(y, 0) # lt0

\* animatePayout(xIndex, pixelsPerFrame, frameNumber) of the engine e
animatePayout(st, e, xIndex, frameNumber) ==
    LET d == st.engines[e]
        y0 == At(d.y, xIndex)
        lt0 == Lt(y0, 0)
        moved == IF lt0 THEN Add(y0, Mul(pixelsPerFrame, Num(frameNumber)))
                 ELSE Sub(y0, Mul(pixelsPerFrame, Num(frameNumber)))
        end == swapped(moved, lt0)
        y == IF end THEN 0 ELSE moved
        st1 == IF d.callback.onAnimationFrame
               THEN [st EXCEPT !.reported.ys = IF Len(@) > MaxFrames THEN @
                                               ELSE Append(@, y),
                               !.reported.stale = @ \/ e # Len(st.engines)]
               ELSE st
    IN IF ~end
       THEN [st1 EXCEPT !.timers = @ \cup
                {[kind |-> "frame", eng |-> e, xIndex |-> xIndex,
                  frameNumber |-> capFrame(frameNumber + 1)]}]
       ELSE IF d.callback.onAnimationEnd
       THEN animateScoreEnd(
               [st1 EXCEPT !.reported.ends = @ + 1,
                           !.reported.endFrame = frameNumber],
               frameNumber)
       ELSE st1

\* showResult(result) of the engine e
showResult(st, e, result) ==
    LET d == st.engines[e]
        x == indexOf(d.x, result)
    IN animatePayout([st EXCEPT !.engines[e].bet.won = yToPayout(d, At(d.y, x), TRUE),
                                !.reveals[e] = @ + 1,
                                !.reported = noReport(At(d.y, x))],
                     e, x, 0)

pageState ==
    [engines |-> engines, canvas |-> canvas, questionNumber |-> questionNumber,
     timers |-> timers, reveals |-> reveals, reported |-> reported]

Becomes(st) ==
    /\ engines' = st.engines
    /\ canvas' = st.canvas
    /\ questionNumber' = st.questionNumber
    /\ timers' = st.timers
    /\ reveals' = st.reveals
    /\ reported' = st.reported

\* ------------------------------------------------------------------------
\* Actions
\* ------------------------------------------------------------------------

\* The update pipeline run n times on the current engine
RECURSIVE deliver(_, _, _)
deliver(d, clickEvent, n) ==
    IF n = 0 THEN d ELSE deliver(drawToCanvas(d, clickEvent), clickEvent, n - 1)

\* setQA(xmlFile): the questions arrive; two timers are set
setQA ==
    /\ answers = <<>>
    /\ \E q \in shuffle(Targets) : answers' = q
    /\ timers' = timers \cup {[kind |-> "callbacks"], [kind |-> "nextRound", id |-> 0]}
    /\ UNCHANGED <<engines, canvas, buttons, questionNumber, reveals, reported,
                   tracking, lastEvent, search, call>>

\* The timer of 400 ms set by setQA: the animation observers are set
setCallbacks ==
    /\ [kind |-> "callbacks"] \in timers
    /\ timers' = timers \ {[kind |-> "callbacks"]}
    /\ engines' = [engines EXCEPT ![dist].callback.onAnimationFrame = TRUE,
                                  ![dist].callback.onAnimationEnd = TRUE]
    /\ UNCHANGED <<canvas, buttons, answers, questionNumber, reveals, reported,
                   tracking, lastEvent, search, call>>

\* A timer that calls nextRound fires: the one of 500 ms set by setQA (after
\* the one of 400 ms) or one set by animateScoreEnd
nextRoundTimer ==
    \E t \in timers :
       /\ t.kind = "nextRound"
       /\ [kind |-> "callbacks"] \notin timers
       /\ Becomes(nextRound([pageState EXCEPT !.timers = @ \ {t}]))
       /\ UNCHANGED <<buttons, answers, tracking, lastEvent, search, call>>

\* mousedown on the canvas: every clickMouse attached runs
\* registerTrackMouse() and drawToCanvas(event)
mousedown ==
    \E ev \in PointerEvents :
       LET n == Cardinality(canvas.mousedown)
       IN /\ canvas' = IF n > 0 THEN registerTrackMouse(canvas, TRUE) ELSE canvas
          /\ engines' = [engines EXCEPT ![dist] = deliver(@, ev, n)]
          /\ buttons' = IF n > 0 /\ engines[dist].callback.onUpdate
                        THEN [showResultsDisabled |-> FALSE] ELSE buttons
          /\ tracking' = IF n > 0 THEN TRUE ELSE tracking
          /\ lastEvent' = n
          /\ UNCHANGED <<answers, questionNumber, timers, reveals, reported, search, call>>

\* mousemove on the canvas: every drawToCanvas attached runs
mousemove ==
    \E ev \in PointerEvents :
       LET n == Cardinality(canvas.mousemove)
       IN /\ engines' = [engines EXCEPT ![dist] = deliver(@, ev, n)]
          /\ buttons' = IF n > 0 /\ engines[dist].callback.onUpdate
                        THEN [showResultsDisabled |-> FALSE] ELSE buttons
          /\ lastEvent' = n
          /\ UNCHANGED <<canvas, answers, questionNumber, timers, reveals,
                         reported, tracking, search, call>>

\* mouseup on the canvas: every listener runs registerTrackMouse(false)
mouseup ==
    /\ canvas' = IF canvas.mouseup # {} THEN registerTrackMouse(canvas, FALSE)
                 ELSE canvas
    /\ tracking' = FALSE
    /\ lastEvent' = 0
    /\ UNCHANGED <<engines, buttons, answers, questionNumber, timers, reveals,
                   reported, search, call>>

\* mouseout on the canvas: every listener runs registerTrackMouse(false)
mouseout ==
    /\ canvas' = IF canvas.mouseout # {} THEN registerTrackMouse(canvas, FALSE)
                 ELSE canvas
    /\ tracking' = FALSE
    /\ lastEvent' = 0
    /\ UNCHANGED <<engines, buttons, answers, questionNumber, timers, reveals,
                   reported, search, call>>

\* clickButton(): the show-result button is pressed, or the key 's' while
\* the button is enabled
clickButton ==
    /\ ~buttons.showResultsDisabled
    /\ sum(reveals) < MaxReveals
    /\ LET answer == At(answers, Num(questionNumber))
           st == showResult(pageState, dist, answer)
       IN Becomes([st EXCEPT !.canvas = registerClickMouse(@, FALSE)])
    /\ buttons' = [showResultsDisabled |-> TRUE]
    /\ UNCHANGED <<answers, tracking, lastEvent, search, call>>

\* A timer set by animatePayout fires: the next frame of an animation
animationFrame ==
    \E t \in timers :
       /\ t.kind = "frame"
       /\ Becomes(animatePayout([pageState EXCEPT !.timers = @ \ {t}],
                                t.eng, t.xIndex, t.frameNumber))
       /\ UNCHANGED <<buttons, answers, tracking, lastEvent, search, call>>

Next ==
    \/ setQA
    \/ setCallbacks
    \/ nextRoundTimer
    \/ mousedown
    \/ mousemove
    \/ mouseup
    \/ mouseout
    \/ clickButton
    \/ animationFrame

Spec == Init /\ [][Next]_vars

\* ------------------------------------------------------------------------
\* The reveal of one round: showResult on an engine that was updated (on
\* the canvas with a panel of positive height), and the frames of its
\* animation, which the browser runs when they are due
\* ------------------------------------------------------------------------

\* True answers: two values of the grid and one that is not on it
RevealAnswers == {Num(0), Num(2), Num(GridMax + 3)}

\* Heights of the answer's column (pixels), multiples of pixelsPerFrame
\* and others
RevealHeights == {0, Num(5), Num(10), Num(40), Num(7), 12500000}

\* The engine d with the column of the value a at height h
withColumn(d, a, h) ==
    IF indexOf(d.x, a) = Num(0 - 1) THEN d
    ELSE [d EXCEPT !.y[(indexOf(d.x, a) \div ONE) + 1] = h]

RevealInit ==
    /\ \E ei \in 1..Len(PointerEventSeq), a \in RevealAnswers :
          /\ answers = <<a>>
          /\ \E d \in {[curveMemo[1][ei] EXCEPT !.callback.onAnimationFrame = TRUE,
                                                 !.callback.onAnimationEnd = TRUE]} :
                \/ engines = <<d>>
                \/ \E h \in RevealHeights : engines = <<withColumn(d, a, h)>>
    /\ canvas = registerCanvas(noCanvas, 1, TRUE)
    /\ buttons = [showResultsDisabled |-> FALSE]
    /\ questionNumber = 0
    /\ timers = {}
    /\ reveals = <<0>>
    /\ reported = noReport(NaN)
    /\ tracking = FALSE
    /\ lastEvent = 1
    /\ search = noSearch
    /\ call = noCall

RevealNext ==
    \/ clickButton
    \/ animationFrame

RevealSpec == RevealInit /\ [][RevealNext]_vars /\ WF_vars(animationFrame)

\* ------------------------------------------------------------------------
\* The precision search as a function of its arguments
\* ------------------------------------------------------------------------

\* Largest maxCycles tried besides the default
MaxSearchCycles == 25

\* Target precisions: none, the bounds, one between, one beyond, and NaN
SearchTargets == {0, minPrecision, 600000, maxPrecision, Num(1), NaN}
\* Tolerances: the default and one that the first cycle meets
SearchErrors == {defaultMaxError, ONE}
SearchCycles == 0..MaxSearchCycles \cup {defaultMaxCycles}

SearchInit ==
    /\ \E ei \in 1..Len(PointerEventSeq) : engines = <<curveMemo[1][ei]>>
    /\ \E t \in SearchTargets, maxError \in SearchErrors, maxCycles \in SearchCycles :
          search = [called |-> FALSE, targetPrecision |-> t,
                    maxError |-> maxError, maxCycles |-> maxCycles]
    /\ canvas = registerCanvas(noCanvas, 1, TRUE)
    /\ buttons = [showResultsDisabled |-> FALSE]
    /\ answers = <<>>
    /\ questionNumber = 0
    /\ timers = {}
    /\ reveals = <<0>>
    /\ reported = noReport(NaN)
    /\ tracking = FALSE
    /\ lastEvent = 1
    /\ call = noCall

\* findPrecisionWhichAdjustsTo is called on the engine and returns
callSearch ==
    /\ ~search.called
    /\ search' = [called |-> TRUE,
                  targetPrecision |-> search.targetPrecision,
                  maxError |-> search.maxError,
                  maxCycles |-> search.maxCycles,
                  locals |-> searchEnd(engines[dist], search.targetPrecision,
                                       search.maxError, search.maxCycles),
                  returned |-> findPrecisionWhichAdjustsTo(engines[dist],
                                  search.targetPrecision, search.maxError,
                                  search.maxCycles)]
    /\ UNCHANGED <<engines, canvas, buttons, answers, questionNumber, timers,
                   reveals, reported, tracking, lastEvent, call>>

SearchNext == callSearch

SearchSpec == SearchInit /\ [][SearchNext]_vars

\* ------------------------------------------------------------------------
\* The update pipeline on engines of several configurations, called by a
\* host program whose onUpdate observer reads the engine
\* ------------------------------------------------------------------------

\* Options: the page's, with the number of points equal to xMax - xMin or
\* not, the axis reversed or not, the normaliser on or off, and the payouts
\* unbounded or limited to [0.5, 0.8]
UpdateConfigs ==
    {[pageArgs(ClientHeightSeq[1]) EXCEPT !.xPoints = Num(p), !.reverseX = r,
                                          !.constantAUC = c,
                                          !.minPayout = l[1], !.maxPayout = l[2]] :
        p \in {GridMax, GridMax \div 2}, r \in BOOLEAN, c \in BOOLEAN,
        l \in {<<NegInfinity, Infinity>>, <<ONE \div 2, (4 * ONE) \div 5>>}}

\* Options without the normaliser, with the precision axis starting at 0,
\* at 0.1 or at minPrecision, the padding computed ('auto') or given, and a
\* margin or none
StyleConfigs ==
    {[pageArgs(ClientHeightSeq[1]) EXCEPT !.constantAUC = FALSE,
                                          !.style.precisionStart = s,
                                          !.style.precisionPadding = p,
                                          !.style.precisionMargin = m] :
        s \in {0, ONE \div 10, minPrecision}, p \in {auto, 0, ONE \div 5},
        m \in {0, ONE \div 10}}

\* Pointer positions relative to the panel's top left corner: left of the
\* panel, above it, inside it, on its right edge and below it, right of it,
\* on its top edge, on its bottom edge
UpdateEvents ==
    {[x |-> Num(0 - 5), y |-> Num(4)], [x |-> Num(7), y |-> Num(0 - 3)],
     [x |-> Num(16), y |-> Num(9)], [x |-> Num(22), y |-> Num(14)],
     [x |-> Num(30), y |-> Num(6)], [x |-> Num(11), y |-> 0],
     [x |-> Num(3), y |-> Num(10)]}

UpdateInit ==
    /\ \E args \in UpdateConfigs \cup StyleConfigs :
          engines = <<Distribution(args, TRUE)>>
    /\ canvas = registerCanvas(noCanvas, 1, TRUE)
    /\ buttons = [showResultsDisabled |-> TRUE]
    /\ answers = <<>>
    /\ questionNumber = 0
    /\ timers = {}
    /\ reveals = <<0>>
    /\ reported = noReport(NaN)
    /\ tracking = FALSE
    /\ lastEvent = 0
    /\ search = noSearch
    /\ call = noCall

\* drawToCanvas(clickEvent) is called on the engine: updateFromCursor runs
\* and calls the onUpdate observer as its last statement, then updateY runs
\* on the engine updateFromCursor returned.
callDrawToCanvas ==
    \E ev \in UpdateEvents :
       \E u \in {updateFromCursor(engines[dist], ev)} :
          /\ engines' = [engines EXCEPT ![dist] = updateY(u)]
          /\ call' = [method |-> "drawToCanvas", event |-> ev,
                      notified |-> engines[dist].callback.onUpdate,
                      seen |-> u,
                      repeated |-> call.method = "drawToCanvas" /\ call.event = ev]
          /\ UNCHANGED <<canvas, buttons, answers, questionNumber, timers,
                         reveals, reported, tracking, lastEvent, search>>

UpdateNext == callDrawToCanvas

UpdateSpec == UpdateInit /\ [][UpdateNext]_vars

\* ------------------------------------------------------------------------
\* The coordinate mappings called by a host program on engines of several
\* configurations, before the first update and after one
\* ------------------------------------------------------------------------

\* The size of the page's canvas
CanvasWidth == Num(808)
CanvasHeight == Num(500)

\* Options: the page's on the page's canvas, with the axis reversed or not,
\* the payouts unbounded or limited to [0.5, 0.8], and the precision axis
\* starting at 0 or at 0.1
MapConfigs ==
    {[pageArgs(CanvasHeight) EXCEPT !.canvas.clientWidth = CanvasWidth,
                                    !.reverseX = r,
                                    !.minPayout = l[1], !.maxPayout = l[2],
                                    !.style.precisionStart = start] :
        r \in BOOLEAN,
        l \in {<<NegInfinity, Infinity>>, <<ONE \div 2, (4 * ONE) \div 5>>},
        start \in {0, ONE \div 10}}

\* Pointer positions inside the panel
MapEvents == {[x |-> Num(100), y |-> Num(50)], [x |-> Num(500), y |-> Num(300)]}

MapInit ==
    /\ \E args \in MapConfigs :
          \E d \in {Distribution(args, TRUE)} :
             \/ engines = <<d>>
             \/ \E ev \in MapEvents : engines = <<drawToCanvas(d, ev)>>
    /\ canvas = registerCanvas(noCanvas, 1, TRUE)
    /\ buttons = [showResultsDisabled |-> TRUE]
    /\ answers = <<>>
    /\ questionNumber = 0
    /\ timers = {}
    /\ reveals = <<0>>
    /\ reported = noReport(NaN)
    /\ tracking = FALSE
    /\ lastEvent = 0
    /\ search = noSearch
    /\ call = noCall

\* Precisions and payouts given to the mappings: the limits and values
\* between them
Precisions(d) ==
    {d.style.precisionStart, d.minPrecision, (3 * ONE) \div 5, d.maxPrecision}
Payouts(d) ==
    {d.minBet, (2 * ONE) \div 5, (13 * ONE) \div 20, (9 * ONE) \div 10, d.maxBet}

\* Heights in pixels: those of the precisions and payouts above, of the
\* columns of the curve (showResult gives yToPayout the height of the
\* answer's column, undefined as a number being NaN), and others
Heights(d) ==
    {precisionToY(d, p) : p \in Precisions(d)}
       \cup {payoutToY(d, b) : b \in Payouts(d)}
       \cup {d.y[i] : i \in 1..Len(d.y)}
       \cup {0, Neg(Num(10)), panel(d).height, NaN}

\* Arguments of the mappings: numbers, arrays of numbers and undefined
ValueArgs(d) ==
    {numberValue(d.x[i]) : i \in 1..Len(d.x)}
       \cup {arrayValue(d.x), arrayValue(<<d.x[1]>>), undefined}
PixelArgs(d) ==
    {numberValue(Sub(valueToX(d, d.x[i]), panel(d).left)) : i \in 1..Len(d.x)}
       \cup {numberValue(0), numberValue(panel(d).width),
             arrayValue(<<0, panel(d).width>>), undefined}
PrecisionArgs(d) ==
    {numberValue(p) : p \in Precisions(d)}
       \cup {arrayValue(<<d.minPrecision, d.maxPrecision>>), undefined}
PayoutArgs(d) ==
    {numberValue(b) : b \in Payouts(d)}
       \cup {arrayValue(<<d.minBet, d.maxBet>>), undefined}
HeightArgs(d) ==
    {numberValue(y) : y \in Heights(d)}
       \cup {arrayValue(<<0, panel(d).height>>), arrayValue(d.y), undefined}

\* What a mapping call leaves alone
mapFrame ==
    UNCHANGED <<engines, canvas, buttons, answers, questionNumber, timers,
                reveals, reported, tracking, lastEvent, search>>

\* The calls below: one call is followed on each engine

callValueToX ==
    /\ call = noCall
    /\ \E value \in ValueArgs(engines[dist]) :
          call' = [method |-> "valueToX", arg |-> value, flag |-> "none",
                   result |-> valueToXAny(engines[dist], value)]
    /\ mapFrame

callXToValue ==
    /\ call = noCall
    /\ \E x \in PixelArgs(engines[dist]) :
          call' = [method |-> "xToValue", arg |-> x, flag |-> "none",
                   result |-> xToValueAny(engines[dist], x)]
    /\ mapFrame

callPrecisionToY ==
    /\ call = noCall
    /\ \E precision \in PrecisionArgs(engines[dist]) :
          call' = [method |-> "precisionToY", arg |-> precision, flag |-> "none",
                   result |-> precisionToYAny(engines[dist], precision)]
    /\ mapFrame

callYToPrecision ==
    /\ call = noCall
    /\ \E y \in HeightArgs(engines[dist]) :
          call' = [method |-> "yToPrecision", arg |-> y, flag |-> "none",
                   result |-> yToPrecisionAny(engines[dist], y)]
    /\ mapFrame

callPayoutToY ==
    /\ call = noCall
    /\ \E payout \in PayoutArgs(engines[dist]) :
          call' = [method |-> "payoutToY", arg |-> payout, flag |-> "none",
                   result |-> payoutToYAny(engines[dist], payout)]
    /\ mapFrame

\* yToPayout(y), yToPayout(y, true) or yToPayout(y, false): without a
\* second argument capByPayoutLimits is true
callYToPayout ==
    /\ call = noCall
    /\ \E y \in HeightArgs(engines[dist]), flag \in {"none", "true", "false"} :
          call' = [method |-> "yToPayout", arg |-> y, flag |-> flag,
                   result |-> yToPayoutAny(engines[dist], y, flag # "false")]
    /\ mapFrame

\* Curves given to the normaliser: every array over the grid of the values
\* 0, 1/3 and 1 that has a positive sum
AreaArgs(d) ==
    {ys \in {Arr(fn, Len(d.x)) : fn \in [1..Len(d.x) -> {0, ONE \div 3, ONE}]} :
        Gt(sum(ys), 0)}

callAdjustForConstantAUC ==
    /\ call = noCall
    /\ \E x \in Range(engines[dist].x), yValues \in AreaArgs(engines[dist]) :
          call' = [method |-> "adjustForConstantAUC",
                   arg |-> [type |-> "curve", x |-> x,
                            xValues |-> engines[dist].x, yValues |-> yValues],
                   flag |-> "none",
                   result |-> adjustForConstantAUC(x, engines[dist].x, yValues)]
    /\ mapFrame

MapNext ==
    \/ callAdjustForConstantAUC
    \/ callValueToX
    \/ callXToValue
    \/ callPrecisionToY
    \/ callYToPrecision
    \/ callPayoutToY
    \/ callYToPayout

MapSpec == MapInit /\ [][MapNext]_vars

\* ------------------------------------------------------------------------
\* Construction: new Distribution(args, startEnabled) by a host program,
\* and new Distribution(previous engine) for the rounds that follow
\* ------------------------------------------------------------------------

\* Engines constructed one from another
MaxRounds == 3

\* minPrecision, maxPrecision, minBet, maxBet, scaleFactor: the page's, and
\* with one of them out of order
BoundsArgs ==
    {<<minPrecision, maxPrecision, minBet, maxBet, scaleFactor>>,
     <<maxPrecision, maxPrecision, minBet, maxBet, scaleFactor>>,
     <<Num(1), maxPrecision, minBet, maxBet, scaleFactor>>,
     <<0, maxPrecision, minBet, maxBet, scaleFactor>>,
     <<Neg(ONE \div 10), maxPrecision, minBet, maxBet, scaleFactor>>,
     <<minPrecision, maxPrecision, maxBet, minBet, scaleFactor>>,
     <<minPrecision, maxPrecision, minBet, maxBet, 0>>,
     <<minPrecision, maxPrecision, minBet, maxBet, Neg(scaleFactor)>>}

\* Options: with a canvas or none, the bounds above, a precision margin or
\* none
ConstructArgs ==
    {[pageArgs(ClientHeightSeq[1]) EXCEPT !.canvas = c,
                                          !.minPrecision = b[1],
                                          !.maxPrecision = b[2],
                                          !.minBet = b[3], !.maxBet = b[4],
                                          !.scaleFactor = b[5],
                                          !.style.precisionMargin = m] :
        c \in {null, pageArgs(ClientHeightSeq[1]).canvas}, b \in BoundsArgs,
        m \in {0, ONE \div 10}}

ConstructInit ==
    /\ engines = <<>>
    /\ canvas = noCanvas
    /\ buttons = [showResultsDisabled |-> TRUE]
    /\ answers = <<>>
    /\ questionNumber = 0
    /\ timers = {}
    /\ reveals = <<>>
    /\ reported = noReport(NaN)
    /\ tracking = FALSE
    /\ lastEvent = 0
    /\ search = noSearch
    /\ call = noCall

\* new Distribution(args, startEnabled).  No option is checked.  Without
\* args.canvas the constructor calls registerCanvas(null), whose second
\* statement, this.canvas.distribution = this, throws a TypeError: the
\* new expression gives no instance.
callConstructor ==
    /\ engines = <<>>
    /\ call = noCall
    /\ \E args \in ConstructArgs, startEnabled \in BOOLEAN :
          IF args.canvas = null
          THEN /\ call' = [method |-> "constructor", arg |-> args,
                           result |-> "TypeError"]
               /\ UNCHANGED <<engines, canvas, reveals>>
          ELSE /\ engines' = <<Distribution(args, startEnabled)>>
               /\ canvas' = registerCanvas(canvas, 1, startEnabled)
               /\ reveals' = <<0>>
               /\ call' = [method |-> "constructor", arg |-> args,
                           result |-> "instance"]
    /\ UNCHANGED <<buttons, answers, questionNumber, timers, reported, tracking,
                   lastEvent, search>>

\* new Distribution(dist): the next round's engine, constructed from the
\* current one as the page's nextRound does
callConstructorFromPrevious ==
    /\ engines # <<>>
    /\ Len(engines) < MaxRounds
    /\ engines' = Append(engines, Distribution(engines[dist], TRUE))
    /\ canvas' = registerCanvas(canvas, Len(engines) + 1, TRUE)
    /\ reveals' = Append(reveals, 0)
    /\ call' = [method |-> "constructor", arg |-> engines[dist],
                result |-> "instance"]
    /\ UNCHANGED <<buttons, answers, questionNumber, timers, reported, tracking,
                   lastEvent, search>>

ConstructNext ==
    \/ callConstructor
    \/ callConstructorFromPrevious

ConstructSpec == ConstructInit /\ [][ConstructNext]_vars

\* ------------------------------------------------------------------------
\* The pointer on the canvas of one engine, constructed with startEnabled
\* or without, whose host may call canvas.registerClickMouse(true)
\* ------------------------------------------------------------------------

\* Options: the page's, with the axis reversed or not and the normaliser on
\* or off
ClickConfigs ==
    {[pageArgs(h) EXCEPT !.reverseX = r, !.constantAUC = c] :
        h \in ClientHeights, r \in BOOLEAN, c \in BOOLEAN}

ClickInit ==
    /\ \E args \in ClickConfigs, startEnabled \in BOOLEAN :
          /\ engines = <<Distribution(args, startEnabled)>>
          /\ canvas = registerCanvas(noCanvas, 1, startEnabled)
    /\ buttons = [showResultsDisabled |-> TRUE]
    /\ answers = <<>>
    /\ questionNumber = 0
    /\ timers = {}
    /\ reveals = <<0>>
    /\ reported = noReport(NaN)
    /\ tracking = FALSE
    /\ lastEvent = 0
    /\ search = noSearch
    /\ call = noCall

\* The host calls canvas.registerClickMouse(true)
callRegisterClickMouse ==
    /\ call = noCall
    /\ canvas' = registerClickMouse(canvas, TRUE)
    /\ call' = [method |-> "registerClickMouse", arg |-> TRUE]
    /\ UNCHANGED <<engines, buttons, answers, questionNumber, timers, reveals,
                   reported, tracking, lastEvent, search>>

ClickNext ==
    \/ callRegisterClickMouse
    \/ mousedown
    \/ mousemove
    \/ mouseup
    \/ mouseout

ClickSpec == ClickInit /\ [][ClickNext]_vars

\* ------------------------------------------------------------------------
\* Properties
\* ------------------------------------------------------------------------

\* The bet (index, mean, precision, amount, height) and the curve data of
\* the engine d
curve(d) ==
    <<d.bet.index, d.bet.on, d.bet.precision, d.bet.amount, d.bet.y,
      d.precisionRaw, d.precision, d.y>>

ListenerTypes == {"mousedown", "mousemove", "mouseup", "mouseout"}

\* No animation frame is scheduled
noFramePending == \A t \in timers : t.kind # "frame"

\* C1: once the current engine's round is committed (showResult has run on
\* it), no step changes its bet or its curve data, whatever the pointer
\* does, also when the commit came during a drag.
C1_FrozenAfterCommit ==
    [][(reveals[dist] > 0 /\ Len(engines') = Len(engines))
         => curve(engines'[dist]) = curve(engines[dist])]_vars

\* C2: while tracking is off (before and after the step), no step changes
\* the current engine's bet, also when the engine was registered while
\* tracking was on.
C2_MoveOnlyWhileTracking ==
    [][(~tracking /\ ~tracking' /\ Len(engines') = Len(engines))
         => curve(engines'[dist]) = curve(engines[dist])]_vars

\* C3: the canvas carries listeners of the current engine only, and a
\* pointer event runs the update pipeline at most once.
C3_CurrentListenersOnly ==
    /\ \A type \in ListenerTypes : canvas[type] \subseteq {dist}
    /\ lastEvent <= 1

\* C4: showResult runs at most once on an engine (once per round).
C4_OneRevealPerRound == \A e \in 1..Len(engines) : reveals[e] <= 1

\* C5: no frame of the animation of a superseded engine calls an observer.
C5_StaleFramesIgnored == ~reported.stale

\* The revealed column is a finite height k * pixelsPerFrame, k >= 0
exactMultiple ==
    /\ reveals[dist] = 1
    /\ IsFinite(reported.y0)
    /\ reported.y0 >= 0
    /\ reported.y0 % pixelsPerFrame = 0

\* C6 as stated: a column of height k * pixelsPerFrame is reported as the
\* k + 1 values y0, ..., pixelsPerFrame, 0, and onAnimationEnd is called on
\* the frame k, where the value first is 0.
C6_EndsWhereZeroIsReached ==
    (exactMultiple /\ reported.ends = 1)
       => /\ Len(reported.ys) = (reported.y0 \div pixelsPerFrame) + 1
          /\ reported.endFrame = reported.y0 \div pixelsPerFrame

\* C6 amended: a column of height k * pixelsPerFrame is reported as the
\* k + 2 values y0, ..., pixelsPerFrame, 0, 0 on the frames 0..k+1, none
\* negative; onAnimationEnd is called once, on the frame k + 1, and no
\* frame is scheduled after it.
C6_EndsOneFrameAfterZero ==
    exactMultiple =>
       LET k == reported.y0 \div pixelsPerFrame
           ys == reported.ys
       IN /\ Len(ys) <= k + 2
          /\ \A i \in 1..Len(ys) :
                /\ ys[i] = IF i <= k THEN reported.y0 - (i - 1) * pixelsPerFrame
                           ELSE 0
                /\ ys[i] >= 0
          /\ reported.ends = IF Len(ys) = k + 2 THEN 1 ELSE 0
          /\ reported.ends = 1 => reported.endFrame = k + 1 /\ noFramePending
          /\ reported.ends = 0 =>
                timers = {[kind |-> "frame", eng |-> dist,
                           xIndex |-> indexOf(engines[dist].x, answers[1]),
                           frameNumber |-> Len(ys)]}

\* A column of 40 pixels has collapsed: ten values were reported
C6_FortyPixelsRevealed ==
    /\ exactMultiple
    /\ reported.y0 = Num(40)
    /\ reported.ends = 1
    /\ Len(reported.ys) = 10
    /\ noFramePending

\* C7: every reveal ends: after showResult, onAnimationEnd is called and
\* no frame stays scheduled.
C7_RevealEnds ==
    (reveals[dist] = 1) ~> (reported.ends = 1 /\ noFramePending)

\* C8: no NaN reaches bet.precision, bet.y, bet.amount or an element of y
\* (a search that returns NaN leaves the bet as it was).
C8_NoNaNInBet ==
    \A e \in 1..Len(engines) :
       /\ engines[e].bet.precision # NaN
       /\ engines[e].bet.y # NaN
       /\ engines[e].bet.amount # NaN
       /\ \A i \in 1..Len(engines[e].y) : engines[e].y[i] # NaN

\* C9: once an engine has been updated, its bet.precision lies in
\* [minPrecision, maxPrecision].
C9_PrecisionWithinLimits ==
    \A e \in 1..Len(engines) :
       engines[e].y # <<>> =>
          /\ Le(engines[e].minPrecision, engines[e].bet.precision)
          /\ Le(engines[e].bet.precision, engines[e].maxPrecision)

\* C10: the search returns NaN exactly when its loop ended without the
\* best error being below maxError, and the best input otherwise.
C10_NaNOnlyWhenNotConverged ==
    search.called =>
       /\ (search.returned = NaN)
             <=> ~Lt(search.locals.best.error, search.maxError)
       /\ Lt(search.locals.best.error, search.maxError)
             => search.returned = search.locals.best.input

\* The curve data of the engine d
curveData(d) == <<d.precisionRaw, d.precision, d.y>>

\* The engine has been updated by a call of drawToCanvas
updated == call.method = "drawToCanvas"

\* C11: when the onUpdate observer is called, the curve data it finds in
\* the engine (precisionRaw, precision, y) are those computed for the bet
\* it is notified about, that is the data the engine has after the update.
C11_ObserverSeesNewCurve ==
    (updated /\ call.notified)
       => /\ call.seen.bet = engines[dist].bet
          /\ curveData(call.seen) = curveData(engines[dist])

\* C12: a second drawToCanvas with the same pointer coordinates leaves
\* precisionRaw, precision and y as the first one left them, whatever the
\* bet was before the first one.
C12_SecondRunChangesNothing ==
    [][(updated /\ call'.event = call.event)
         => curveData(engines'[dist]) = curveData(engines[dist])]_vars

\* A pointer position was applied twice running, after another one, and
\* left a curve of finite heights
C12_SameEventTwice ==
    /\ updated
    /\ call.repeated
    /\ call.seen.bet.won = 0
    /\ engines[dist].constantAUC
    /\ Len(engines[dist].y) = Len(engines[dist].x)
    /\ \A i \in 1..Len(engines[dist].y) :
          IsFinite(engines[dist].y[i]) /\ engines[dist].y[i] > 0

\* C13: the sample grid has xPoints + 1 values, evenly spaced, from xMin to
\* xMax (from xMax down to xMin when reverseX is set).
C13_GridOfXPoints ==
    \A e \in 1..Len(engines) :
       LET d == engines[e]
           n == Len(d.x)
           step == Div(Sub(d.xMax, d.xMin), d.xPoints)
       IN /\ Num(n) = Add(d.xPoints, Num(1))
          /\ d.x[IF d.reverseX THEN n ELSE 1] = d.xMin
          /\ d.x[IF d.reverseX THEN 1 ELSE n] = d.xMax
          /\ \A i \in 1..(n - 1) :
                Sub(d.x[i + 1], d.x[i]) = IF d.reverseX THEN Neg(step) ELSE step

Tolerance == ONE \div 1000
near(a, b) == IsFinite(a) /\ IsFinite(b) /\ Abs(a - b) <= Tolerance

\* A mapping was called with one number
calledWithNumber(method) == call.method = method /\ call.arg.type = "number"

\* The payouts are not limited
unlimited(d) == d.minPayout = NegInfinity /\ d.maxPayout = Infinity

\* C15: for every value v of the grid, reversed or not, the pixel that
\* valueToX gives for v, taken relative to the panel, is mapped by xToValue
\* to an index whose grid value is within one grid step of v.
C15_PixelOfValueMapsBack ==
    calledWithNumber("xToValue") =>
       LET d == engines[dist]
       IN \A i \in 1..Len(d.x) :
             Sub(valueToX(d, d.x[i]), panel(d).left) = numberOf(call.arg)
                => Le(MathAbs(Sub(At(d.x, numberOf(call.result)), d.x[i])),
                      Div(Sub(d.xMax, d.xMin), d.xPoints))

\* The payout that lies on the line from (minPrecision, minBet) to
\* (maxPrecision, maxBet) at the precision p
payoutOnLine(d, p) ==
    Add(d.minBet, Div(Mul(Sub(p, d.minPrecision), Sub(d.maxBet, d.minBet)),
                      Sub(d.maxPrecision, d.minPrecision)))

\* C16: payoutToY(minBet) is precisionToY(minPrecision), payoutToY(maxBet)
\* is precisionToY(maxPrecision), and with unlimited payouts the amount of a
\* bet at a precision p of [minPrecision, maxPrecision], which is
\* yToPayout(precisionToY(p)), lies on the line from minBet at minPrecision
\* to maxBet at maxPrecision.
C16_PayoutsAlignedWithPrecisions ==
    LET d == engines[dist]
    IN /\ (calledWithNumber("payoutToY") /\ numberOf(call.arg) = d.minBet)
             => near(numberOf(call.result), precisionToY(d, d.minPrecision))
       /\ (calledWithNumber("payoutToY") /\ numberOf(call.arg) = d.maxBet)
             => near(numberOf(call.result), precisionToY(d, d.maxPrecision))
       /\ (calledWithNumber("yToPayout") /\ call.flag = "none" /\ unlimited(d))
             => \A p \in Precisions(d) :
                   (/\ Le(d.minPrecision, p)
                    /\ Le(p, d.maxPrecision)
                    /\ precisionToY(d, p) = numberOf(call.arg))
                      => near(numberOf(call.result), payoutOnLine(d, p))

\* The height of maxPrecision was given to yToPayout, on a precision axis
\* that starts above 0, and maxBet came back
C16_MaxPrecisionPaysMaxBet ==
    /\ calledWithNumber("yToPayout")
    /\ call.flag = "none"
    /\ unlimited(engines[dist])
    /\ engines[dist].style.precisionStart > 0
    /\ numberOf(call.arg) = precisionToY(engines[dist], engines[dist].maxPrecision)
    /\ near(numberOf(call.result), engines[dist].maxBet)

\* C17 as stated: for every payout b of [minBet, maxBet], whatever the
\* payout limits are, yToPayout(payoutToY(b)) is b.
C17_PayoutRoundTrip ==
    (calledWithNumber("yToPayout") /\ call.flag = "none") =>
       LET d == engines[dist]
       IN \A b \in Payouts(d) :
             payoutToY(d, b) = numberOf(call.arg) => near(numberOf(call.result), b)

\* C17 amended: yToPayout(payoutToY(b)) is b for every payout b of
\* [minBet, maxBet] that lies within [minPayout, maxPayout]; a payout
\* outside the limits comes back as the limit it exceeds; and
\* yToPayout(payoutToY(b), false) is b whatever the limits are.
C17_PayoutRoundTripWithinLimits ==
    calledWithNumber("yToPayout") =>
       LET d == engines[dist]
       IN \A b \in Payouts(d) :
             payoutToY(d, b) = numberOf(call.arg) =>
                near(numberOf(call.result),
                     IF call.flag = "false" THEN b
                     ELSE IF Lt(b, d.minPayout) THEN d.minPayout
                     ELSE IF Gt(b, d.maxPayout) THEN d.maxPayout
                     ELSE b)

\* With limited payouts, the height of a payout within the limits was
\* given to yToPayout and the payout came back
C17_PayoutWithinLimitsCameBack ==
    /\ calledWithNumber("yToPayout")
    /\ call.flag = "none"
    /\ ~unlimited(engines[dist])
    /\ numberOf(call.arg) = payoutToY(engines[dist], (13 * ONE) \div 20)
    /\ near(numberOf(call.result), (13 * ONE) \div 20)

\* yToPayout was called on the number y and returned r: with the flag off
\* r is the payout whose height is y; otherwise r is that payout if it lies
\* within [minPayout, maxPayout] and the limit it exceeds if not
cappedInverse(d, y, flag, r) ==
    LET u == yToPayout(d, y, FALSE)
    IN /\ near(payoutToY(d, u), y)
       /\ flag = "false" => r = u
       /\ flag # "false" =>
             /\ Le(d.minPayout, r) /\ Le(r, d.maxPayout)
             /\ (Le(d.minPayout, u) /\ Le(u, d.maxPayout)) => r = u
             /\ Lt(u, d.minPayout) => r = d.minPayout
             /\ Gt(u, d.maxPayout) => r = d.maxPayout

mapped(d, v) ==
    CASE call.method = "valueToX" -> valueToX(d, v)
      [] call.method = "xToValue" -> xToValue(d, v)
      [] call.method = "precisionToY" -> precisionToY(d, v)
      [] call.method = "yToPrecision" -> yToPrecision(d, v)
      [] call.method = "payoutToY" -> payoutToY(d, v)
      [] call.method = "yToPayout" -> yToPayout(d, v, call.flag # "false")

\* C19: each mapping, given an array of n numbers, returns an array of n
\* numbers, the i-th being the mapping of the i-th number given.
C19_ArraysMappedElementwise ==
    (call.method # "none" /\ call.arg.type = "array") =>
       /\ call.result.type = "array"
       /\ Len(call.result.value) = Len(call.arg.value)
       /\ \A i \in 1..Len(call.arg.value) :
             call.result.value[i] = mapped(engines[dist], call.arg.value[i])

\* C20: after an update with constantAUC set, precisionRaw is the density
\* f(x, bet.on, sd) as f returned it and precision is the adjusted density,
\* of the same length.
C20_RawDensityKept ==
    (updated /\ engines[dist].constantAUC) =>
       LET d == engines[dist]
           raw == f(d.x, d.bet.on, getSD(d, d.bet.precision))
       IN /\ d.precisionRaw = raw
          /\ d.precision = adjustForConstantAUC(d.bet.on, d.x, raw)
          /\ Len(d.precision) = Len(raw)

\* The precision that updateFromCursor reads off the pointer, before the
\* search and the clamp
rawPrecision(d, clickEvent) ==
    yToPrecision(d, getCursorCoordinates(d, clickEvent).y)

\* C24: an update whose pointer gives a raw precision that is not positive
\* is rejected: bet.index, bet.on, bet.precision and bet.amount stay as
\* they were.
C24_NonPositivePrecisionRejected ==
    [][(call'.method = "drawToCanvas"
          /\ Le(rawPrecision(engines[dist], call'.event), 0))
         => LET b == engines[dist].bet
                c == engines'[dist].bet
            IN <<c.index, c.on, c.precision, c.amount>>
                  = <<b.index, b.on, b.precision, b.amount>>]_vars

\* The normal density 1/(sqrt(2 pi) sd) exp(-(x - mu)^2 / (2 sd^2))
normalDensity(x, mu, sd) ==
    Mul(Div(ONE, Mul(root2pi, sd)),
        MathExp(Neg(Div(Mul(Sub(x, mu), Sub(x, mu)),
                        Mul(Num(2), Mul(sd, sd))))))

\* C26: the density that an update computes (constantAUC off, so that
\* precisionRaw is what f returned) is the normal density at every grid
\* value; at the bet's mean it is 1/(sqrt(2 pi) sd), the largest element.
C26_DensityIsNormal ==
    (updated /\ ~engines[dist].constantAUC /\ IsFinite(engines[dist].bet.precision))
       => LET d == engines[dist]
              sd == getSD(d, d.bet.precision)
              peak == Div(ONE, Mul(root2pi, sd))
          IN /\ At(d.precisionRaw, d.bet.index) = peak
             /\ \A i \in 1..Len(d.precisionRaw) :
                   /\ Le(d.precisionRaw[i], peak)
                   /\ near(d.precisionRaw[i], normalDensity(d.x[i], d.bet.on, sd))

\* C28: the show-result button is enabled only while the current engine
\* has been updated (its curve y is not empty), so that no reveal runs in
\* a round without a bet.
C28_RevealOnlyAfterUpdate ==
    ~buttons.showResultsDisabled => engines[dist].y # <<>>

\* The value of frame n of the reveal of a column of height y0: y0 moved
\* by n * pixelsPerFrame towards 0, and 0 once it has got there
frameValue(y0, n) ==
    LET moved == IF Lt(y0, 0) THEN Add(y0, Mul(pixelsPerFrame, Num(n)))
                 ELSE Sub(y0, Mul(pixelsPerFrame, Num(n)))
    IN IF swapped(moved, Lt(y0, 0)) THEN 0 ELSE moved

\* C29: the values reported to onAnimationFrame during the one reveal of
\* the current engine are y0, y0 -+ pixelsPerFrame, ..., 0, where y0 is the
\* height of the column when showResult ran, whatever the pointer did
\* between the frames.
C29_FramesFollowRevealedColumn ==
    (reveals[dist] = 1 /\ ~reported.stale /\ IsFinite(reported.y0))
       => \A i \in 1..Len(reported.ys) :
             reported.ys[i] = frameValue(reported.y0, i - 1)

\* C25: with constantAUC off, an update from a pointer at or above the
\* panel top leaves bet.precision at maxPrecision, and one from a pointer
\* at or below the panel bottom leaves it at minPrecision, whatever the
\* start of the precision axis (up to minPrecision), the padding and the
\* margin.
C25_PanelEdgesGiveLimits ==
    (updated /\ ~engines[dist].constantAUC)
       => LET d == engines[dist]
          IN /\ Le(call.event.y, 0) => d.bet.precision = d.maxPrecision
             /\ Ge(call.event.y, panel(d).height)
                   => d.bet.precision = d.minPrecision

\* An update from above the panel, on an axis that starts above 0 and has
\* a margin, has given maxPrecision
C25_AbovePanelWithMargin ==
    /\ updated
    /\ ~engines[dist].constantAUC
    /\ Lt(call.event.y, 0)
    /\ Gt(engines[dist].style.precisionStart, 0)
    /\ Gt(engines[dist].style.precisionMargin, 0)
    /\ engines[dist].bet.precision = engines[dist].maxPrecision

\* The sum of the elements of yValues whose grid value lies left (or
\* right) of x
tail(x, xValues, yValues, left) ==
    sum(Arr([i \in 1..Len(yValues) |->
               IF (left /\ Lt(xValues[i], x)) \/ (~left /\ Gt(xValues[i], x))
               THEN yValues[i] ELSE 0],
            Len(yValues)))

\* |left tail - right tail| of the call of adjustForConstantAUC
remainderOfCall ==
    MathAbs(Sub(tail(call.arg.x, call.arg.xValues, call.arg.yValues, TRUE),
                tail(call.arg.x, call.arg.xValues, call.arg.yValues, FALSE)))

\* C21: the sum of what adjustForConstantAUC returns is the sum of yValues
\* plus the remainder |left tail - right tail|; with a remainder of 0 the
\* result is yValues, element for element.
C21_MassConserved ==
    call.method = "adjustForConstantAUC"
       => /\ near(sum(call.result), Add(sum(call.arg.yValues), remainderOfCall))
          /\ remainderOfCall = 0 => call.result = call.arg.yValues

\* A curve with more mass on one side, and a sum other than 1, was adjusted
C21_LopsidedCurveAdjusted ==
    /\ call.method = "adjustForConstantAUC"
    /\ Gt(remainderOfCall, 0)
    /\ sum(call.arg.yValues) # ONE
    /\ call.result # call.arg.yValues

\* C22: constructing an engine without a canvas raises no exception from
\* the missing canvas (the problem is reported instead).
C22_MissingCanvasReported ==
    (call.method = "constructor" /\ call.arg.canvas = null)
       => call.result # "TypeError"

\* Bounds that the constructor is to refuse
invalidBounds(args) ==
    \/ Ge(args.minPrecision, args.maxPrecision)
    \/ Le(args.minPrecision, 0)
    \/ Gt(args.minBet, args.maxBet)
    \/ Le(args.scaleFactor, 0)

\* C23: a construction with invalid bounds produces no instance.
C23_InvalidBoundsRejected ==
    (call.method = "constructor" /\ invalidBounds(call.arg))
       => call.result # "instance"

\* C27: while registerClickMouse(true) has not been called, no step
\* changes the bet or the curve of an engine constructed with startEnabled
\* false; on an engine constructed with startEnabled true, a mousedown
\* updates the bet.
C27_ClickableOnlyWhenEnabled ==
    [][/\ (~engines[dist].startEnabled /\ call' = noCall)
             => curve(engines'[dist]) = curve(engines[dist])
       /\ (engines[dist].startEnabled /\ mousedown)
             => /\ engines'[dist].y # <<>>
                /\ IsFinite(engines'[dist].bet.index)]_vars

\* An engine constructed with startEnabled false has been updated, after
\* registerClickMouse(true)
C27_EnabledLater ==
    /\ ~engines[dist].startEnabled
    /\ call.method = "registerClickMouse"
    /\ engines[dist].y # <<>>

\* C30: every engine constructed from the previous one (the first with
\* valid bounds) has the precisionPadding, and so the precisionScale, of
\* the first.
C30_SameScaleEveryRound ==
    \A e \in 2..Len(engines) :
       invalidBounds(engines[1]) \/
       /\ engines[e].style.precisionPadding = engines[1].style.precisionPadding
       /\ precisionScale(engines[e]) = precisionScale(engines[1])
====
